---- MODULE Spec2Model ----
(***************************************************************************)
(* State-machine model of the rns crate:                                   *)
(*   - worker_pool::Pool / Worker   (src/src/worker_pool/mod.rs)           *)
(*   - web::RouteMap                (src/src/web/mod.rs)                   *)
(*   - web::request::RequestBackend (src/src/web/request/mod.rs)           *)
(*   - web::response::Header, Response (src/src/web/response/mod.rs)       *)
(* Each component has its own specification (SpecPool, SpecRoute,          *)
(* SpecBuild, SpecHeader, SpecStatus, SpecRespond, SpecCode; SpecPoolFair  *)
(* adds the scheduling assumptions); the variables of the other components *)
(* stay at their idle values.                                              *)
(***************************************************************************)
EXTENDS Integers, Sequences, FiniteSets, TLC

VARIABLES
    \* ---- worker_pool ----
    nWorkers,     \* Pool.workers.len(), fixed by Pool::new
    tx,           \* Pool.tx : "open" (Some(sender)) or "closed" (taken and dropped)
    queue,        \* jobs sent on the mpsc channel and not yet received
    rx_lock,      \* set of workers holding the Mutex<Receiver<Job>> guard
    wpc,          \* position of each worker thread in its loop
    wjob,         \* job a worker has received and is executing (0: none)
    execCount,    \* job -> number of times its callable was invoked
    execBy,       \* job -> set of workers that invoked it
    submitted,    \* number of Pool::execute calls made so far
    panics,       \* jobs whose callable panics
    lost,         \* jobs dropped without being run (send failed or receiver dropped)
    mainpc,       \* position of the thread that calls Pool::new and owns the Pool
    joinIdx,      \* index of the next worker Drop will join
    inFlightAtDrop, \* history: jobs a worker had already received when Drop began
    n_arg,        \* the n_workers argument of Pool::new
    refused,      \* history: jobs whose send returned Err in Pool::execute
    dequeued,     \* history: the jobs recv() handed out, in the order it did
    queuedAtDrop, \* history: jobs in the channel when Drop began
    \* ---- web::RouteMap ----
    map,          \* RouteMap.map : Uri -> (Method -> Action)
    latest,       \* history: (uri, method) -> action of the latest insert naming the pair
    lookup,       \* the latest get_action call: its arguments and its result
    replaced,     \* history: (uri, method) pairs re-inserted with another action
    callerMethods, \* the caller's Vec<String> after the latest insert_route_methods
    \* ---- web::request::RequestBackend::build ----
    stream,       \* the bytes the stream holds when build is called
    src,          \* history: the pieces the stream was put together from
    rpos,         \* number of bytes the BufReader has handed out
    bpc,          \* position of build: "status", "headers", "body", "done";
                  \* "responded" after respond on the request built
    status_line,  \* the parsed StatusRequest
    headers,      \* the Vec<Header> collected so far
    body,         \* the collected body
    result,       \* what build returned: Ok or Err(code)
    attempts,     \* codes of the canned responses build tried to write
    wire,         \* bytes the stream took from build's writes
    readFailed,   \* history: stage at which a read returned Err ("none" if none did)
    writeFailed,  \* history: a write of the canned response failed
    sent,         \* the Response given to RequestBackend::respond and its outcome
    held,         \* what an in-memory stream holds, from offset 0, after respond
    \* ---- web::response::Header::build ----
    hline,        \* the header_str given to Header::build
    hpc,          \* "input", then "built", "serialized", "rebuilt"
    hres,         \* what Header::build returned
    hstr,         \* to_http_str() of the header built
    hres2,        \* what Header::build returned for hstr
    \* ---- web::request::StatusRequest ----
    sline,        \* the line_str given to StatusRequest::build
    stoks,        \* history: the tokens sline was put together from
    spc,          \* "input", then "built", "read"
    sres,         \* what StatusRequest::build returned
    sgot,         \* what get_method, get_uri and get_version returned
    \* ---- web::response::Response::respond ----
    rsp,          \* the Response: status code, headers, body
    rfault,       \* where the stream stops taking bytes
    rpc,          \* "ready" before respond, "responded" after it
    rout,         \* what respond returned, the bytes the stream took, the calls made
    \* ---- web::response::ResponseCode ----
    code_1,       \* left operand of ==
    code_2,       \* right operand of ==
    cpc,          \* "input" before the comparison, "compared" after it
    ceq           \* what code_1 == code_2 gave

poolVars == <<nWorkers, tx, queue, rx_lock, wpc, wjob, execCount, execBy,
              submitted, panics, lost, mainpc, joinIdx, inFlightAtDrop,
              n_arg, refused, dequeued, queuedAtDrop>>

routeVars == <<map, latest, lookup, replaced, callerMethods>>

buildVars == <<stream, src, rpos, bpc, status_line, headers, body, result,
               attempts, wire, readFailed, writeFailed, sent, held>>

headerVars == <<hline, hpc, hres, hstr, hres2>>

statusVars == <<sline, stoks, spc, sres, sgot>>

respondVars == <<rsp, rfault, rpc, rout>>

codeVars == <<code_1, code_2, cpc, ceq>>

notPool == <<routeVars, buildVars, headerVars, statusVars, respondVars, codeVars>>
notRoute == <<poolVars, buildVars, headerVars, statusVars, respondVars, codeVars>>
notBuild == <<poolVars, routeVars, headerVars, statusVars, respondVars, codeVars>>
notHeader == <<poolVars, routeVars, buildVars, statusVars, respondVars, codeVars>>
notStatus == <<poolVars, routeVars, buildVars, headerVars, respondVars, codeVars>>
notRespond == <<poolVars, routeVars, buildVars, headerVars, statusVars, codeVars>>

notCode == <<poolVars, routeVars, buildVars, headerVars, statusVars, respondVars>>

vars == <<poolVars, routeVars, buildVars, headerVars, statusVars, respondVars, codeVars>>

----------------------------------------------------------------------------
(* Bounds *)
MaxWorkers == 2
MaxJobs == 3
MaxMethods == 2
MaxHeaders == 2
MaxWriteOk == 30
MaxLine == 5
MaxTokens == 4

----------------------------------------------------------------------------
(* worker_pool *)

Workers == 0 .. (nWorkers - 1)
Jobs == 1 .. MaxJobs

\* The exclusive upper limit of n_workers in Pool::new's assert.
WorkerLimit == 256

\* Arguments Pool::new is called with: none, a few, the limit, beyond it.
NewArgs == (0 .. MaxWorkers) \cup {WorkerLimit, 4 * WorkerLimit}

NewAcceptsZero(n) == n < WorkerLimit

\* The condition of Pool::new's assert!.
NewAccepts(n) == n > 0 /\ n < WorkerLimit

\* A worker thread is gone (its closure, and with it its clone of the
\* Arc<Mutex<Receiver>>, has been dropped).
Terminated(w) == wpc[w] \in {"exited", "panicked"}

\* The Receiver lives as long as one worker thread still owns a clone of the Arc.
ReceiverAlive == \E w \in Workers : ~Terminated(w)

SeqToSet(s) == {s[i] : i \in 1 .. Len(s)}

InitPool ==
    /\ n_arg \in NewArgs
    /\ nWorkers = 0
    /\ tx = "none"
    /\ queue = <<>>
    /\ rx_lock = {}
    /\ wpc = <<>>
    /\ wjob = <<>>
    /\ execCount = [j \in Jobs |-> 0]
    /\ execBy = [j \in Jobs |-> {}]
    /\ submitted = 0
    /\ panics = {}
    /\ lost = {}
    /\ mainpc = "new"
    /\ joinIdx = 0
    /\ inFlightAtDrop = {}
    /\ refused = {}
    /\ dequeued = <<>>
    /\ queuedAtDrop = {}

IdlePool ==
    /\ nWorkers = 0
    /\ tx = "open"
    /\ queue = <<>>
    /\ rx_lock = {}
    /\ wpc = <<>>
    /\ wjob = <<>>
    /\ execCount = <<>>
    /\ execBy = <<>>
    /\ submitted = 0
    /\ panics = {}
    /\ lost = {}
    /\ mainpc = "idle"
    /\ joinIdx = 0
    /\ inFlightAtDrop = {}
    /\ n_arg = 0
    /\ refused = {}
    /\ dequeued = <<>>
    /\ queuedAtDrop = {}

\* Pool::new: the assert!, then the channel and one thread per worker, each
\* starting at the top of its loop.
PoolNew ==
    /\ mainpc = "new"
    /\ IF NewAccepts(n_arg)
         THEN /\ nWorkers' = n_arg
              /\ tx' = "open"
              /\ wpc' = [w \in 0 .. (n_arg - 1) |-> "lock"]
              /\ wjob' = [w \in 0 .. (n_arg - 1) |-> 0]
              /\ mainpc' = "live"
         ELSE /\ mainpc' = "new_panicked"
              /\ UNCHANGED <<nWorkers, tx, wpc, wjob>>
    /\ UNCHANGED <<queue, rx_lock, execCount, execBy, submitted, panics, lost,
                   joinIdx, inFlightAtDrop, n_arg, refused, dequeued, queuedAtDrop>>
    /\ UNCHANGED notPool

AfterSendErrUnwrap == "execute_panicked"

\* Where the caller of execute is after send returned Err: the error is
\* printed and execute returns.
AfterSendErr == "live"

\* Pool::execute: box the callable and send it; a send error is only logged.
Execute(p) ==
    /\ mainpc = "live"
    /\ submitted < MaxJobs
    /\ submitted' = submitted + 1
    /\ panics' = IF p THEN panics \cup {submitted + 1} ELSE panics
    /\ IF ReceiverAlive
         THEN /\ queue' = Append(queue, submitted + 1)
              /\ UNCHANGED <<lost, refused, mainpc>>
         ELSE /\ queue' = queue
              /\ lost' = lost \cup {submitted + 1}
              /\ refused' = refused \cup {submitted + 1}
              /\ mainpc' = AfterSendErr
    /\ UNCHANGED <<nWorkers, tx, rx_lock, wpc, wjob, execCount, execBy, joinIdx,
                   inFlightAtDrop, n_arg, dequeued, queuedAtDrop>>
    /\ UNCHANGED notPool

LockAlwaysFree == TRUE

\* Mutex::lock returns only when no other thread holds the guard.
LockFree == rx_lock = {}

\* in_rx.lock().unwrap(): the mutex is granted to one thread at a time.
AcquireLock(w) ==
    /\ wpc[w] = "lock"
    /\ LockFree
    /\ rx_lock' = {w}
    /\ wpc' = [wpc EXCEPT ![w] = "recv"]
    /\ UNCHANGED <<nWorkers, tx, queue, wjob, execCount, execBy, submitted, panics,
                   lost, mainpc, joinIdx, inFlightAtDrop,
                   n_arg, refused, dequeued, queuedAtDrop>>
    /\ UNCHANGED notPool

DequeuedNewest(q) == q[Len(q)]

\* The job taken from the channel by a successful recv().
Dequeued(q) == Head(q)

AfterRecvKeep(q) == q

\* What is left in the channel after a successful recv().
AfterRecv(q) == Tail(q)

GuardHeldThroughJob(w) == rx_lock

\* Holders of the mutex once `let job = in_rx.lock().unwrap().recv();` is
\* over: the guard, a temporary of that statement, has been dropped.
GuardAfterRecv(w) == rx_lock \ {w}

\* recv() returns Ok(callable); the guard is a temporary of the let statement
\* and is released before the match.
RecvJob(w) ==
    /\ wpc[w] = "recv"
    /\ queue # <<>>
    /\ wjob' = [wjob EXCEPT ![w] = Dequeued(queue)]
    /\ queue' = AfterRecv(queue)
    /\ rx_lock' = GuardAfterRecv(w)
    /\ wpc' = [wpc EXCEPT ![w] = "run"]
    /\ dequeued' = Append(dequeued, Dequeued(queue))
    /\ UNCHANGED <<nWorkers, tx, execCount, execBy, submitted, panics, lost, mainpc,
                   joinIdx, inFlightAtDrop, n_arg, refused, queuedAtDrop>>
    /\ UNCHANGED notPool

DisconnectedOnClose == tx = "closed"

\* recv() gives Err(RecvError) only when no message is buffered and every
\* Sender is gone.
Disconnected == queue = <<>> /\ tx = "closed"

\* recv() returns Err: the channel is empty and every Sender is dropped.
\* The worker logs and breaks out of its loop.
RecvFail(w) ==
    /\ wpc[w] = "recv"
    /\ Disconnected
    /\ rx_lock' = rx_lock \ {w}
    /\ wpc' = [wpc EXCEPT ![w] = "exited"]
    /\ UNCHANGED <<nWorkers, tx, queue, wjob, execCount, execBy, submitted, panics,
                   lost, mainpc, joinIdx, inFlightAtDrop,
                   n_arg, refused, dequeued, queuedAtDrop>>
    /\ UNCHANGED notPool

AfterPanicCaught == "lock"

\* Where a worker thread is after its callable panicked: nothing catches the
\* unwind, the thread is over.
AfterPanic == "panicked"

\* callable(): the job runs to completion on the worker's thread.  A panic
\* unwinds the thread; when the last clone of the Arc goes with it, the
\* Receiver is dropped and the messages still in the channel are discarded.
RunJob(w) ==
    /\ wpc[w] = "run"
    /\ execCount' = [execCount EXCEPT ![wjob[w]] = @ + 1]
    /\ execBy' = [execBy EXCEPT ![wjob[w]] = @ \cup {w}]
    /\ wjob' = [wjob EXCEPT ![w] = 0]
    /\ IF wjob[w] \in panics
         THEN /\ wpc' = [wpc EXCEPT ![w] = AfterPanic]
              /\ IF \A v \in Workers \ {w} : Terminated(v)
                   THEN /\ queue' = <<>>
                        /\ lost' = lost \cup SeqToSet(queue)
                   ELSE UNCHANGED <<queue, lost>>
         ELSE /\ wpc' = [wpc EXCEPT ![w] = "lock"]
              /\ UNCHANGED <<queue, lost>>
    /\ UNCHANGED <<nWorkers, tx, rx_lock, submitted, panics, mainpc, joinIdx, inFlightAtDrop,
                   n_arg, refused, dequeued, queuedAtDrop>>
    /\ UNCHANGED notPool

TxKept == "open"

\* Pool.tx after drop(self.tx.take()): the only Sender is gone.
TxAfterTake == "closed"

\* Drop for Pool, first statement: drop(self.tx.take()).
DropCloseTx ==
    /\ mainpc = "live"
    /\ tx' = TxAfterTake
    /\ mainpc' = "joining"
    /\ joinIdx' = 0
    /\ inFlightAtDrop' = {wjob[w] : w \in Workers} \ {0}
    /\ queuedAtDrop' = SeqToSet(queue)
    /\ UNCHANGED <<nWorkers, queue, rx_lock, wpc, wjob, execCount, execBy, submitted,
                   panics, lost, n_arg, refused, dequeued>>
    /\ UNCHANGED notPool

JoinErrIgnored(w) == FALSE

\* join() returns Err for a thread that ended in a panic.
JoinIsErr(w) == wpc[w] = "panicked"

JoinReadyNoWait(w) == TRUE

\* join() returns only once the worker's thread has finished.
JoinReady(w) == Terminated(w)

\* Drop for Pool, one iteration of the drain loop: w.thread_h.join().unwrap().
\* join() yields Err for a thread that panicked and unwrap() panics on it.
DropJoin ==
    /\ mainpc = "joining"
    /\ joinIdx < nWorkers
    /\ JoinReady(joinIdx)
    /\ IF JoinIsErr(joinIdx)
         THEN /\ mainpc' = "panicked"
              /\ joinIdx' = joinIdx
         ELSE /\ joinIdx' = joinIdx + 1
              /\ mainpc' = IF joinIdx + 1 = nWorkers THEN "dropped" ELSE "joining"
    /\ UNCHANGED <<nWorkers, tx, queue, rx_lock, wpc, wjob, execCount, execBy,
                   submitted, panics, lost, inFlightAtDrop,
                   n_arg, refused, dequeued, queuedAtDrop>>
    /\ UNCHANGED notPool

NextPool ==
    \/ PoolNew
    \/ \E p \in BOOLEAN : Execute(p)
    \/ \E w \in Workers : AcquireLock(w)
    \/ \E w \in Workers : RecvJob(w)
    \/ \E w \in Workers : RecvFail(w)
    \/ \E w \in Workers : RunJob(w)
    \/ DropCloseTx
    \/ DropJoin


----------------------------------------------------------------------------
(* web::RouteMap *)

Uris == {"/a", "/b"}
Methods == {"GET", "POST"}
Actions == {"h1", "h2"}

\* Method lists handed to insert_route_methods (a Vec<String>, possibly empty,
\* possibly with a repeated method).
MethodLists == UNION {[1 .. n -> Methods] : n \in 0 .. MaxMethods}

\* HashMap::insert: add the key or overwrite its value.
HashInsert(h, k, v) == [x \in (DOMAIN h) \cup {k} |-> IF x = k THEN v ELSE h[x]]

\* The HashMap::new() of a RouteMap or of one uri's method map.
EmptyMap == [x \in {} |-> x]

\* RouteMap::get_method_map: the table after the get-or-create of uri's entry.
get_method_map(rm, uri) ==
    IF uri \notin DOMAIN rm THEN HashInsert(rm, uri, EmptyMap) ELSE rm

insert_route_first_wins(rm, uri, method, closure) ==
    LET rm1 == get_method_map(rm, uri)
    IN  IF method \in DOMAIN rm1[uri] THEN rm1
        ELSE [rm1 EXCEPT ![uri] = HashInsert(@, method, closure)]

\* RouteMap::insert_route: the table after the call.
insert_route(rm, uri, method, closure) ==
    LET rm1 == get_method_map(rm, uri)
    IN  [rm1 EXCEPT ![uri] = HashInsert(@, method, closure)]

\* The loop of insert_route_methods over the drained methods.
RECURSIVE InsertDrained(_, _, _)
InsertDrained(method_map, methods, closure) ==
    IF methods = <<>> THEN method_map
    ELSE InsertDrained(HashInsert(method_map, Head(methods), closure), Tail(methods), closure)

\* What methods.drain(..) leaves in the caller's vector once the loop is over.
DrainLeft(methods) == <<>>

\* RouteMap::insert_route_methods: the table after the call.
insert_route_methods(rm, uri, methods, closure) ==
    LET rm1 == get_method_map(rm, uri)
    IN  [rm1 EXCEPT ![uri] = InsertDrained(@, methods, closure)]

Ok(a) == [ok |-> TRUE, action |-> a, code |-> 200]
Err(c) == [ok |-> FALSE, action |-> "none", code |-> c]

\* RouteMap::get_action
get_action(rm, uri, method) ==
    IF uri \in DOMAIN rm
      THEN IF method \in DOMAIN rm[uri]
             THEN Ok(rm[uri][method])
             ELSE Err(405)
      ELSE Err(404)

NoLookup == [uri |-> "none", method |-> "none", res |-> Err(0)]

\* RouteMap::new()
InitRoute ==
    /\ map = EmptyMap
    /\ latest = EmptyMap
    /\ lookup = NoLookup
    /\ replaced = {}
    /\ callerMethods = <<>>

IdleRoute == InitRoute

RECURSIVE Relabel(_, _, _, _)
\* History of the pairs named by one insert call.
Relabel(l, uri, methods, closure) ==
    IF methods = <<>> THEN l
    ELSE Relabel(HashInsert(l, <<uri, Head(methods)>>, closure), uri, Tail(methods), closure)

\* History: the pairs among uri x methods that had another action before.
Replacing(l, uri, methods, closure) ==
    {<<uri, methods[i]>> : i \in 1 .. Len(methods)}
        \cap {pr \in DOMAIN l : l[pr] # closure}

InsertRoute(uri, method, closure) ==
    /\ map' = insert_route(map, uri, method, closure)
    /\ latest' = Relabel(latest, uri, <<method>>, closure)
    /\ replaced' = replaced \cup Replacing(latest, uri, <<method>>, closure)
    /\ UNCHANGED <<lookup, callerMethods>>
    /\ UNCHANGED notRoute

InsertRouteMethods(uri, methods, closure) ==
    /\ map' = insert_route_methods(map, uri, methods, closure)
    /\ latest' = Relabel(latest, uri, methods, closure)
    /\ replaced' = replaced \cup Replacing(latest, uri, methods, closure)
    /\ callerMethods' = DrainLeft(methods)
    /\ UNCHANGED lookup
    /\ UNCHANGED notRoute

GetAction(uri, method) ==
    /\ lookup' = [uri |-> uri, method |-> method, res |-> get_action(map, uri, method)]
    /\ UNCHANGED <<map, latest, replaced, callerMethods>>
    /\ UNCHANGED notRoute

NextRoute ==
    \/ \E u \in Uris, m \in Methods, a \in Actions : InsertRoute(u, m, a)
    \/ \E u \in Uris, ms \in MethodLists, a \in Actions : InsertRouteMethods(u, ms, a)
    \/ \E u \in Uris, m \in Methods : GetAction(u, m)



----------------------------------------------------------------------------
(* Text: a string or byte vector is a sequence of one-character strings;   *)
(* "FF" stands for a byte that is not valid UTF-8.                         *)

CRLF == <<"\r", "\n">>
LF == <<"\n">>

\* char::is_whitespace, on the characters of the model
IsWhitespace(c) == c \in {" ", "\t", "\r", "\n"}

RECURSIVE TrimStart(_)
TrimStart(s) ==
    IF s # <<>> /\ IsWhitespace(Head(s)) THEN TrimStart(Tail(s)) ELSE s

RECURSIVE TrimEnd(_)
TrimEnd(s) ==
    IF s # <<>> /\ IsWhitespace(s[Len(s)]) THEN TrimEnd(SubSeq(s, 1, Len(s) - 1)) ELSE s

\* str::trim
Trim(s) == TrimEnd(TrimStart(s))

\* Index of the first occurrence of c in s, or 0.
IndexOf(s, c) ==
    IF \E i \in 1 .. Len(s) : s[i] = c
      THEN CHOOSE i \in 1 .. Len(s) : s[i] = c /\ \A k \in 1 .. (i - 1) : s[k] # c
      ELSE 0

\* str::split(sep).collect(): the pieces between every occurrence of sep.
RECURSIVE Split(_, _)
Split(s, sep) ==
    LET i == IndexOf(s, sep)
    IN  IF i = 0 THEN <<s>>
        ELSE <<SubSeq(s, 1, i - 1)>> \o Split(SubSeq(s, i + 1, Len(s)), sep)

\* Index of the first whitespace character of s, or Len(s) + 1.
TokenEnd(s) ==
    IF \E i \in 1 .. Len(s) : IsWhitespace(s[i])
      THEN CHOOSE i \in 1 .. Len(s) :
               IsWhitespace(s[i]) /\ \A k \in 1 .. (i - 1) : ~IsWhitespace(s[k])
      ELSE Len(s) + 1

\* str::split_whitespace().collect(): the maximal runs of non-whitespace.
RECURSIVE SplitWhitespace(_)
SplitWhitespace(s) ==
    LET t == TrimStart(s)
    IN  IF t = <<>> THEN <<>>
        ELSE <<SubSeq(t, 1, TokenEnd(t) - 1)>>
                 \o SplitWhitespace(SubSeq(t, TokenEnd(t), Len(t)))

\* String::from_utf8 succeeds.
ValidUtf8(s) == \A i \in 1 .. Len(s) : s[i] # "FF"

Digit(d) == <<"0", "1", "2", "3", "4", "5", "6", "7", "8", "9">>[d + 1]

\* Display for usize
RECURSIVE UsizeToString(_)
UsizeToString(n) ==
    IF n < 10 THEN <<Digit(n)>> ELSE UsizeToString(n \div 10) \o <<Digit(n % 10)>>

\* Concatenation of a sequence of strings.
RECURSIVE Concat(_)
Concat(ss) == IF ss = <<>> THEN <<>> ELSE Head(ss) \o Concat(Tail(ss))

----------------------------------------------------------------------------
(* web::response *)

\* Display for Versions::Http1_1
HTTP11 == <<"H", "T", "T", "P", "/", "1", ".", "1">>

\* ResponseCode::get_200()
get_200 == [code |-> 200, reason |-> <<"O", "K">>, storage |-> "Static"]

\* ResponseCode::get_400()
get_400 == [code |-> 400, reason |-> <<"B", "a", "d", " ", "R", "e", "q", "u", "e", "s", "t">>,
            storage |-> "Static"]

\* ResponseCode::get_500()
get_500 == [code |-> 500, reason |-> <<"I", "n", "t", "e", "r", "n", "a", "l", " ", "S", "e", "r", "v", "e", "r", " ", "E", "r", "r", "o", "r">>,
            storage |-> "Static"]

\* ResponseCode::new
ResponseCodeNew(in_code, in_reason) ==
    [code |-> in_code, reason |-> in_reason, storage |-> "Dynamic"]

eq_derived(self, other) == self = other

\* PartialEq for ResponseCode
eq(self, other) == self.code = other.code

\* Result<_, ResponseCode>, reduced to what PartialEq for ResponseCode compares.
WebOk == [ok |-> TRUE, code |-> 0]
WebErr(c) == [ok |-> FALSE, code |-> c]

HeaderBuildRawName(header_str) ==
    LET parts == Split(header_str, ":")
    IN  IF Len(parts) < 2
          THEN [ok |-> FALSE, code |-> 400, name |-> <<>>, value |-> <<>>]
          ELSE [ok |-> TRUE, code |-> 0, name |-> parts[1], value |-> Trim(parts[2])]

HeaderBuildLenient(header_str) ==
    LET parts == Split(header_str, ":")
    IN  [ok |-> TRUE, code |-> 0, name |-> Trim(parts[1]),
         value |-> IF Len(parts) < 2 THEN <<>> ELSE Trim(parts[2])]

\* Header::build
HeaderBuild(header_str) ==
    LET parts == Split(header_str, ":")
    IN  IF Len(parts) < 2
          THEN [ok |-> FALSE, code |-> 400, name |-> <<>>, value |-> <<>>]
          ELSE [ok |-> TRUE, code |-> 0, name |-> Trim(parts[1]), value |-> Trim(parts[2])]

to_http_str_tight(h) == h.name \o <<":">> \o h.value

\* Header::to_http_str
to_http_str(h) == h.name \o <<":", " ">> \o h.value

\* Display for StatusResponse: "{version} {code} {reason}"
StatusResponseStr(code) == HTTP11 \o <<" ">> \o UsizeToString(code.code) \o <<" ">> \o code.reason

RespondWritesNoBlank(code, hdrs, body_bytes) ==
    <<StatusResponseStr(code), CRLF>>
        \o Concat([i \in 1 .. Len(hdrs) |-> <<to_http_str(hdrs[i]), CRLF>>])
        \o <<body_bytes>>

\* The buffers Response::respond hands to write_all, in order.
RespondWrites(code, hdrs, body_bytes) ==
    <<StatusResponseStr(code), CRLF>>
        \o Concat([i \in 1 .. Len(hdrs) |-> <<to_http_str(hdrs[i]), CRLF>>])
        \o <<CRLF, body_bytes>>

\* A stream that takes every write, or one that fails once `after` bytes are in.
NoWriteFault == [fails |-> FALSE, after |-> 0]
WriteFaultAfter(n) == [fails |-> TRUE, after |-> n]

FailedKeepGoing(bufs, written, wf) ==
    [ok |-> FALSE,
     wire |-> written \o SubSeq(Head(bufs), 1, wf.after - Len(written)),
     calls |-> Len(bufs)]

\* A write_all that returns Err: `?` returns it from respond.  bufs: the
\* buffer being written and those after it.
Failed(bufs, written, wf) ==
    [ok |-> FALSE,
     wire |-> written \o SubSeq(Head(bufs), 1, wf.after - Len(written)),
     calls |-> 1]

\* The write_all calls of respond, each propagated with `?`: stop at the first
\* failure.  written: the bytes the stream has taken so far; calls: the
\* write_all calls made.  write_all of an empty buffer returns Ok without
\* touching the stream.
RECURSIVE WriteAll(_, _, _)
WriteAll(bufs, written, wf) ==
    IF bufs = <<>> THEN [ok |-> TRUE, wire |-> written, calls |-> 0]
    ELSE IF Head(bufs) = <<>>
           THEN [WriteAll(Tail(bufs), written, wf) EXCEPT !.calls = @ + 1]
    ELSE IF wf.fails /\ Len(written) + Len(Head(bufs)) > wf.after
           THEN Failed(bufs, written, wf)
           ELSE [WriteAll(Tail(bufs), written \o Head(bufs), wf) EXCEPT !.calls = @ + 1]

\* Response::respond
Respond(code, hdrs, body_bytes, wf) == WriteAll(RespondWrites(code, hdrs, body_bytes), <<>>, wf)

\* Response::respond_code: status only, no headers, empty body.
respond_code(code, wf) == Respond(code, <<>>, <<>>, wf)

----------------------------------------------------------------------------
(* web::response::Response::respond on its own *)

CodeChoices == {get_200, get_400}

\* Headers as Header::build makes them.
RespHeaderChoices ==
    { [name |-> HeaderBuild(l).name, value |-> HeaderBuild(l).value] :
        l \in { <<"H", ":", " ", "v">>, <<"K", ":">>, <<"L", "e", "n", ":", "1">> } }

RespHeaderLists == UNION {[1 .. n -> RespHeaderChoices] : n \in 0 .. MaxHeaders}

RespBodyChoices == { <<>>, <<"b">>, <<"b", "\r", "\n">> }

NoOutcome == [ok |-> FALSE, wire |-> <<>>, calls |-> 0]

InitRespond ==
    /\ rsp \in [code : CodeChoices, headers : RespHeaderLists, body : RespBodyChoices]
    /\ rfault \in {NoWriteFault} \cup {WriteFaultAfter(n) : n \in 0 .. MaxWriteOk}
    /\ rpc = "ready"
    /\ rout = NoOutcome

IdleRespond ==
    /\ rsp = [code |-> get_200, headers |-> <<>>, body |-> <<>>]
    /\ rfault = NoWriteFault
    /\ rpc = "idle"
    /\ rout = NoOutcome

\* response.respond(&mut stream)
CallRespond ==
    /\ rpc = "ready"
    /\ rout' = Respond(rsp.code, rsp.headers, rsp.body, rfault)
    /\ rpc' = "responded"
    /\ UNCHANGED <<rsp, rfault>>
    /\ UNCHANGED notRespond

NextRespond == CallRespond

----------------------------------------------------------------------------
(* web::response::ResponseCode equality on its own *)

CodeNumbers == {200, 400, 404}

ReasonChoices ==
    { <<>>, <<"O", "K">>, <<"N", "o", "n", "s", "e", "n", "s", "e">>,
      <<"B", "a", "d", " ", "R", "e", "q", "u", "e", "s", "t">> }

\* Canned codes and codes made by ResponseCode::new.
CodeValues ==
    {get_200, get_400, get_500}
        \cup {ResponseCodeNew(c, r) : c \in CodeNumbers, r \in ReasonChoices}

InitCode ==
    /\ code_1 \in CodeValues
    /\ code_2 \in CodeValues
    /\ cpc = "input"
    /\ ceq = FALSE

IdleCode ==
    /\ code_1 = get_200
    /\ code_2 = get_200
    /\ cpc = "idle"
    /\ ceq = FALSE

\* code_1 == code_2
CallEq ==
    /\ cpc = "input"
    /\ ceq' = eq(code_1, code_2)
    /\ cpc' = "compared"
    /\ UNCHANGED <<code_1, code_2>>
    /\ UNCHANGED notCode

NextCode == CallEq

----------------------------------------------------------------------------
(* web::response::Header::build on its own *)

LineAlphabet == {"H", ":", " ", "v"}

HeaderLines == UNION {[1 .. n -> LineAlphabet] : n \in 0 .. MaxLine}

NoHeader == [ok |-> FALSE, code |-> 0, name |-> <<>>, value |-> <<>>]

InitHeader ==
    /\ hline \in HeaderLines
    /\ hpc = "input"
    /\ hres = NoHeader
    /\ hstr = <<>>
    /\ hres2 = NoHeader

IdleHeader ==
    /\ hline = <<>>
    /\ hpc = "idle"
    /\ hres = NoHeader
    /\ hstr = <<>>
    /\ hres2 = NoHeader

CallHeaderBuild ==
    /\ hpc = "input"
    /\ hres' = HeaderBuild(hline)
    /\ hpc' = "built"
    /\ UNCHANGED <<hline, hstr, hres2>>
    /\ UNCHANGED notHeader

\* header.to_http_str() on the header that was built
CallToHttpStr ==
    /\ hpc = "built"
    /\ hres.ok
    /\ hstr' = to_http_str(hres)
    /\ hpc' = "serialized"
    /\ UNCHANGED <<hline, hres, hres2>>
    /\ UNCHANGED notHeader

\* Header::build on the serialized header
CallRebuild ==
    /\ hpc = "serialized"
    /\ hres2' = HeaderBuild(hstr)
    /\ hpc' = "rebuilt"
    /\ UNCHANGED <<hline, hres, hstr>>
    /\ UNCHANGED notHeader

NextHeader ==
    \/ CallHeaderBuild
    \/ CallToHttpStr
    \/ CallRebuild

----------------------------------------------------------------------------
(* web::request *)

\* StatusRequest::build
StatusRequestBuildAnyVersion(line_str) ==
    LET parts == SplitWhitespace(line_str)
        bad == [ok |-> FALSE, code |-> 400, method |-> <<>>, uri |-> <<>>, version |-> "none"]
    IN  IF Len(parts) < 3 THEN bad
        ELSE [ok |-> TRUE, code |-> 0, method |-> parts[1], uri |-> parts[2],
              version |-> "Http1_1"]

StatusRequestBuild(line_str) ==
    LET parts == SplitWhitespace(line_str)
        bad == [ok |-> FALSE, code |-> 400, method |-> <<>>, uri |-> <<>>, version |-> "none"]
    IN  IF Len(parts) < 3 THEN bad
        ELSE IF parts[3] = HTTP11
               THEN [ok |-> TRUE, code |-> 0, method |-> parts[1], uri |-> parts[2],
                     version |-> "Http1_1"]
               ELSE bad

\* No StatusRequest yet.
NoStatus == [ok |-> FALSE, code |-> 0, method |-> <<>>, uri |-> <<>>, version |-> "none"]

\* StatusRequest::get_method
get_method(st) == st.method

\* StatusRequest::get_uri
get_uri(st) == st.uri

\* StatusRequest::get_version
get_version(st) == st.version

\* Nothing read from a StatusRequest yet.
NoGot == [method |-> <<>>, uri |-> <<>>, version |-> "none"]

\* Tokens a status line is put together from, and what stands between them.
TokenChoices ==
    { <<"G">>, <<"/", "t">>, HTTP11,
      <<"H", "T", "T", "P", "/", "1", ".", "0">> }

SepChoices == { <<" ">>, <<"\t">>, <<" ", " ">> }

PadChoices == { <<>>, <<" ">> }

TokenLists == UNION {[1 .. n -> TokenChoices] : n \in 0 .. MaxTokens}

\* toks with sep between neighbours
RECURSIVE Join(_, _)
Join(toks, sep) ==
    IF Len(toks) = 0 THEN <<>>
    ELSE IF Len(toks) = 1 THEN toks[1]
    ELSE toks[1] \o sep \o Join(Tail(toks), sep)

InitStatus ==
    /\ stoks \in TokenLists
    /\ \E sep \in SepChoices, lead \in PadChoices, trail \in PadChoices :
           sline = lead \o Join(stoks, sep) \o trail
    /\ spc = "input"
    /\ sres = NoStatus
    /\ sgot = NoGot

IdleStatus ==
    /\ sline = <<>>
    /\ stoks = <<>>
    /\ spc = "idle"
    /\ sres = NoStatus
    /\ sgot = NoGot

CallStatusBuild ==
    /\ spc = "input"
    /\ sres' = StatusRequestBuild(sline)
    /\ spc' = "built"
    /\ UNCHANGED <<sline, stoks, sgot>>
    /\ UNCHANGED notStatus

\* The accessors of the StatusRequest that was built, each called once.
CallGetters ==
    /\ spc = "built"
    /\ sres.ok
    /\ sgot' = [method  |-> get_method(sres),
                uri     |-> get_uri(sres),
                version |-> get_version(sres)]
    /\ spc' = "read"
    /\ UNCHANGED <<sline, stoks, sres>>
    /\ UNCHANGED notStatus

NextStatus ==
    \/ CallStatusBuild
    \/ CallGetters

\* Lines: drop the final "\n" and then a final "\r".
StripEol(raw) ==
    IF raw # <<>> /\ raw[Len(raw)] = "\n"
      THEN LET t == SubSeq(raw, 1, Len(raw) - 1)
           IN  IF t # <<>> /\ t[Len(t)] = "\r" THEN SubSeq(t, 1, Len(t) - 1) ELSE t
      ELSE raw

\* One item of BufReader::lines() read at offset pos of data.  fail: the
\* underlying read returns an error.  The item is None at end of input, Err
\* when the read fails or the bytes are not UTF-8, else the line without its
\* terminator.
ReadLine(data, pos, fail) ==
    LET rest == SubSeq(data, pos + 1, Len(data))
        nl == IndexOf(rest, "\n")
        raw == IF nl = 0 THEN rest ELSE SubSeq(rest, 1, nl)
    IN  IF fail THEN [kind |-> "err", line |-> <<>>, pos |-> pos]
        ELSE IF rest = <<>> THEN [kind |-> "none", line |-> <<>>, pos |-> pos]
        ELSE IF ~ValidUtf8(raw) THEN [kind |-> "err", line |-> <<>>, pos |-> pos + Len(raw)]
        ELSE [kind |-> "ok", line |-> StripEol(raw), pos |-> pos + Len(raw)]

\* Streams a write can meet: one that takes everything, or one that fails
\* after some number of bytes.
WriteFaults == {NoWriteFault} \cup {WriteFaultAfter(n) : n \in 0 .. MaxWriteOk}

ReturnAtEofAs500(wf) ==
    LET r == respond_code(get_400, wf)
    IN  [result |-> WebErr(500), attempts |-> <<400>>, wire |-> r.wire, wfail |-> ~r.ok]

ReturnAtEofSwallow(wf) ==
    LET r == respond_code(get_400, wf)
    IN  [result |-> WebErr(400), attempts |-> <<400>>, wire |-> r.wire, wfail |-> ~r.ok]

\* build, lines 86-101 and 147-162: end of input where a line was required.
\* Write the canned 400; return 400, or 500 when that write failed.
ReturnAtEof(wf) ==
    LET r == respond_code(get_400, wf)
    IN  [result |-> IF r.ok THEN WebErr(400) ELSE WebErr(500),
         attempts |-> <<400>>, wire |-> r.wire, wfail |-> ~r.ok]

ReturnAtReadErrAs400(wf) ==
    LET r == respond_code(get_400, wf)
    IN  [result |-> WebErr(400), attempts |-> <<400>>, wire |-> r.wire, wfail |-> ~r.ok]

\* build, lines 104-116, 123-135 and 166-175: a read returned Err.
\* Write the canned 500, ignore the outcome of the write, return 500.
ReturnAtReadErr(wf) ==
    LET r == respond_code(get_500, wf)
    IN  [result |-> WebErr(500), attempts |-> <<500>>, wire |-> r.wire, wfail |-> ~r.ok]

\* build, lines 117 and 143: the `?` on a parser's Err returns it as is.
ReturnParseErr(c) ==
    [result |-> WebErr(c), attempts |-> <<>>, wire |-> <<>>, wfail |-> FALSE]

StatusChoices ==
    { <<"G", " ", "/", "t", " ", "H", "T", "T", "P", "/", "1", ".", "1">>,
      <<"G", " ", "/", "t", " ", "H", "T", "T", "P", "/", "1", ".", "1", " ", "x">>,
      <<"G", " ", "/", "t", " ", "H", "T", "T", "P", "/", "1", ".", "0">>,
      <<"G", " ", "/", "t">>,
      <<>> }

HeaderChoices ==
    { <<"H", ":", " ", "v">>,
      <<"H", ":", " ", "v", ":", "w">>,
      <<"K", ":", "v", " ">>,
      <<"H", "v">>,
      <<"H", ":", " ", "FF">> }

BodyChoices ==
    { <<>>,
      <<"b", "\n", "c", ":", "d">>,
      <<"FF">> }

HeaderLists == UNION {[1 .. n -> HeaderChoices] : n \in 0 .. MaxHeaders}

\* The bytes of a stream made of a status line, header lines, an optional
\* blank line and a remainder.  Each line ends with eol.
Compose(st, eol, hs, blank, b) ==
    st \o eol \o Concat([i \in 1 .. Len(hs) |-> hs[i] \o eol])
       \o (IF blank THEN eol ELSE <<>>) \o b

Sources ==
    {[shape |-> "empty", status |-> <<>>, eol |-> <<>>, headers |-> <<>>,
      blank |-> FALSE, body |-> <<>>]}
    \cup {[shape |-> "cut", status |-> st, eol |-> <<>>, headers |-> <<>>,
           blank |-> FALSE, body |-> <<>>] : st \in StatusChoices \ {<<>>}}
    \cup {[shape |-> "full", status |-> st, eol |-> e, headers |-> hs,
           blank |-> bl, body |-> b] :
             st \in StatusChoices, e \in {CRLF, LF}, hs \in HeaderLists,
             bl \in BOOLEAN, b \in BodyChoices}

Pending == [ok |-> FALSE, code |-> 0]

\* No respond call yet.
NoSent == [called |-> FALSE, code |-> get_200, headers |-> <<>>, body |-> <<>>, ok |-> FALSE]

\* Responses given to RequestBackend::respond.
SentChoices ==
    { [code |-> get_200, headers |-> <<>>, body |-> <<>>],
      [code |-> get_200,
       headers |-> << [name |-> <<"H">>, value |-> <<"v">>] >>,
       body |-> <<"b">>],
      [code |-> get_400, headers |-> <<>>, body |-> <<"b", "\r", "\n">>] }

\* Write for Cursor<Vec<u8>>: the bytes go in at the cursor's position, over
\* what is there and past the end, the rest of the vector stays.
CursorWrite(data, pos, bytes) ==
    SubSeq(data, 1, pos) \o bytes \o SubSeq(data, pos + Len(bytes) + 1, Len(data))

InitBuild ==
    /\ src \in Sources
    /\ stream = Compose(src.status, src.eol, src.headers, src.blank, src.body)
    /\ rpos = 0
    /\ bpc = "status"
    /\ status_line = NoStatus
    /\ headers = <<>>
    /\ body = <<>>
    /\ result = Pending
    /\ attempts = <<>>
    /\ wire = <<>>
    /\ readFailed = "none"
    /\ writeFailed = FALSE
    /\ sent = NoSent
    /\ held = <<>>

IdleBuild ==
    /\ src = [shape |-> "empty", status |-> <<>>, eol |-> <<>>, headers |-> <<>>,
              blank |-> FALSE, body |-> <<>>]
    /\ stream = <<>>
    /\ rpos = 0
    /\ bpc = "idle"
    /\ status_line = NoStatus
    /\ headers = <<>>
    /\ body = <<>>
    /\ result = Pending
    /\ attempts = <<>>
    /\ wire = <<>>
    /\ readFailed = "none"
    /\ writeFailed = FALSE
    /\ sent = NoSent
    /\ held = <<>>

\* build returns ret; stage: where a read failed, if one did.
Return(ret, stage) ==
    /\ bpc' = "done"
    /\ result' = ret.result
    /\ attempts' = ret.attempts
    /\ wire' = ret.wire
    /\ writeFailed' = ret.wfail
    /\ readFailed' = stage

\* build, lines 80-117: the status line.
ReadStatus(fail, wf) ==
    /\ bpc = "status"
    /\ LET item == ReadLine(stream, rpos, fail)
           st == StatusRequestBuild(item.line)
       IN  /\ rpos' = item.pos
           /\ IF item.kind = "none"
                THEN Return(ReturnAtEof(wf), "none") /\ UNCHANGED status_line
              ELSE IF item.kind = "err"
                THEN Return(ReturnAtReadErr(wf), "status") /\ UNCHANGED status_line
              ELSE IF ~st.ok
                THEN Return(ReturnParseErr(st.code), "none") /\ UNCHANGED status_line
              ELSE /\ status_line' = st
                   /\ bpc' = "headers"
                   /\ UNCHANGED <<result, attempts, wire, readFailed, writeFailed>>
    /\ UNCHANGED <<stream, src, headers, body, sent, held>>
    /\ UNCHANGED notBuild

\* build, lines 119-162: one iteration of the header loop, or its exit at the
\* end of input followed by the cr_lf_consumed check.
ReadHeader(fail, wf) ==
    /\ bpc = "headers"
    /\ LET item == ReadLine(stream, rpos, fail)
           h == HeaderBuild(item.line)
       IN  /\ rpos' = item.pos
           /\ IF item.kind = "none"
                THEN Return(ReturnAtEof(wf), "none") /\ UNCHANGED headers
              ELSE IF item.kind = "err"
                THEN Return(ReturnAtReadErr(wf), "header") /\ UNCHANGED headers
              ELSE IF item.line = <<>>
                THEN /\ bpc' = "body"
                     /\ UNCHANGED <<headers, result, attempts, wire, readFailed, writeFailed>>
              ELSE IF ~h.ok
                THEN Return(ReturnParseErr(h.code), "none") /\ UNCHANGED headers
              ELSE /\ headers' = Append(headers, [name |-> h.name, value |-> h.value])
                   /\ UNCHANGED <<bpc, result, attempts, wire, readFailed, writeFailed>>
    /\ UNCHANGED <<stream, src, status_line, body, sent, held>>
    /\ UNCHANGED notBuild

\* build, lines 164-185: read_to_end of what the BufReader has left.
ReadBody(fail, wf) ==
    /\ bpc = "body"
    /\ IF fail
         THEN /\ Return(ReturnAtReadErr(wf), "body")
              /\ UNCHANGED <<body, rpos>>
         ELSE /\ body' = SubSeq(stream, rpos + 1, Len(stream))
              /\ rpos' = Len(stream)
              /\ bpc' = "done"
              /\ result' = WebOk
              /\ UNCHANGED <<attempts, wire, readFailed, writeFailed>>
    /\ UNCHANGED <<stream, src, status_line, headers, sent, held>>
    /\ UNCHANGED notBuild

\* RequestBackend::respond on the request build returned: the response is
\* written to the retained stream, whose position is where the reads left it.
ReqRespond(r, wf) ==
    /\ bpc = "done"
    /\ result = WebOk
    /\ LET out == Respond(r.code, r.headers, r.body, wf)
       IN  /\ sent' = [called |-> TRUE, code |-> r.code, headers |-> r.headers,
                       body |-> r.body, ok |-> out.ok]
           /\ held' = CursorWrite(stream, rpos, out.wire)
    /\ bpc' = "responded"
    /\ UNCHANGED <<stream, src, rpos, status_line, headers, body, result, attempts,
                   wire, readFailed, writeFailed>>
    /\ UNCHANGED notBuild

NextBuild ==
    \/ \E fail \in BOOLEAN, wf \in WriteFaults : ReadStatus(fail, wf)
    \/ \E fail \in BOOLEAN, wf \in WriteFaults : ReadHeader(fail, wf)
    \/ \E fail \in BOOLEAN, wf \in WriteFaults : ReadBody(fail, wf)
    \/ \E r \in SentChoices, wf \in WriteFaults : ReqRespond(r, wf)

----------------------------------------------------------------------------
(* Properties of worker_pool *)

\* Number of copies of job j waiting in the channel.
Queued(j) == Cardinality({i \in 1 .. Len(queue) : queue[i] = j})

\* Number of workers that have received job j and not finished running it.
InFlight(j) == Cardinality({w \in Workers : wjob[w] = j})

\* C1: every submitted job is run at most once and by at most one worker, it
\* is never in two places at once (channel, a worker's hands, already run),
\* and when no job panics it is in exactly one of them, so that once the pool
\* has been dropped every submitted job has run exactly once.
C1_ExactlyOnce ==
    \A j \in 1 .. submitted :
        /\ execCount[j] <= 1
        /\ Cardinality(execBy[j]) <= 1
        /\ Queued(j) + InFlight(j) + execCount[j] <= 1
        /\ panics = {} => Queued(j) + InFlight(j) + execCount[j] = 1
        /\ (panics = {} /\ mainpc = "dropped") => execCount[j] = 1

\* K >= N >= 2 jobs, none panicking, all run, by more than one worker.
C1_Witness ==
    /\ nWorkers >= 2
    /\ submitted >= nWorkers
    /\ panics = {}
    /\ mainpc = "dropped"
    /\ \A j \in 1 .. submitted : execCount[j] = 1
    /\ \E j1, j2 \in 1 .. submitted : execBy[j1] # execBy[j2]

\* C2: once Drop has returned, every job that was in flight when it began has
\* run to completion, no worker holds a job, and every worker thread has left
\* its loop.
C2_DropWaits ==
    mainpc = "dropped" =>
        /\ \A w \in Workers : wpc[w] = "exited" /\ wjob[w] = 0
        /\ \A j \in inFlightAtDrop : execCount[j] = 1

\* Drop returned and a job was in flight when it began.
C2_Witness ==
    /\ mainpc = "dropped"
    /\ inFlightAtDrop # {}
    /\ nWorkers >= 2

\* Workers holding the guard and blocked in, or returning from, recv().
Receiving == {w \in Workers : wpc[w] = "recv"}

\* C18: Pool::new(n) panics exactly when n = 0 or n >= 256 and then there is
\* no pool (no channel, no worker); for 1 <= n < 256 it returns a pool with
\* exactly n workers, and that number stays n while the pool lives.
C18_WorkerCountFixed ==
    /\ \A n \in 0 .. (2 * 256) : NewAccepts(n) <=> (n >= 1 /\ n < 256)
    /\ mainpc = "new_panicked" =>
           /\ n_arg = 0 \/ n_arg >= 256
           /\ nWorkers = 0 /\ wpc = <<>> /\ tx = "none" /\ submitted = 0
    /\ mainpc \in {"live", "joining", "panicked", "dropped"} =>
           /\ n_arg >= 1 /\ n_arg < 256
           /\ nWorkers = n_arg
           /\ DOMAIN wpc = 0 .. (n_arg - 1)
           /\ DOMAIN wjob = 0 .. (n_arg - 1)

\* A pool built with two workers has run jobs on both and still has two.
C18_Witness ==
    /\ mainpc = "live"
    /\ n_arg = 2
    /\ nWorkers = 2
    /\ \E j1, j2 \in 1 .. submitted :
           execBy[j1] = {0} /\ execBy[j2] = {1}

\* C19: when execute is called on a live pool whose workers have all
\* terminated, the send error does not panic the caller: execute returns, and
\* the job is dropped, never queued, never received and never run.
C19_RefusedJobDropped ==
    /\ mainpc # "execute_panicked"
    /\ \A j \in refused :
           /\ execCount[j] = 0
           /\ execBy[j] = {}
           /\ Queued(j) = 0
           /\ InFlight(j) = 0
           /\ j \in lost

\* Both workers panicked on the first two jobs; the third was submitted to the
\* live pool afterwards and the caller went on to drop the pool.
C19_Witness ==
    /\ nWorkers = 2
    /\ \A w \in Workers : wpc[w] = "panicked"
    /\ refused = {3}
    /\ execCount[3] = 0
    /\ mainpc = "joining"

\* C20: at most one worker at a time is inside recv() on the shared receiver,
\* it is the one holding the mutex, and every other worker that wants a job
\* is waiting for the lock.
C20_OneReceiver ==
    /\ Cardinality(Receiving) <= 1
    /\ rx_lock = Receiving
    /\ \A w \in Workers \ Receiving :
           (~Terminated(w) /\ wjob[w] = 0) => wpc[w] = "lock"

\* One worker blocked in recv() on an empty channel while the other waits.
C20_Witness ==
    /\ nWorkers = 2
    /\ mainpc = "live"
    /\ queue = <<>>
    /\ wpc[0] = "lock"
    /\ wpc[1] = "recv"
    /\ rx_lock = {1}
    /\ submitted > 0

\* Position of job j in the order of hand-off, 0 if it was never handed out.
DequeuePos(j) ==
    IF \E i \in 1 .. Len(dequeued) : dequeued[i] = j
      THEN CHOOSE i \in 1 .. Len(dequeued) : dequeued[i] = j
      ELSE 0

\* C21: jobs leave the channel in submission order (jobs are numbered in the
\* order execute was called): whenever job b has been handed to a worker,
\* every job a submitted before b was handed to a worker earlier.
C21_FifoHandOff ==
    \A b \in 1 .. submitted :
        DequeuePos(b) > 0 =>
            \A a \in 1 .. (b - 1) :
                DequeuePos(a) > 0 /\ DequeuePos(a) < DequeuePos(b)

\* Job 1 was handed out before job 2, and job 2 has finished while job 1 is
\* still running.
C21_Witness ==
    /\ Len(dequeued) >= 2
    /\ dequeued[1] = 1 /\ dequeued[2] = 2
    /\ execCount[2] = 1
    /\ execCount[1] = 0
    /\ InFlight(1) = 1

\* Workers whose callable is running.
Running == {w \in Workers : wpc[w] = "run"}

\* C25: a worker that is running a job does not hold the receiver lock; the
\* lock is held only by a worker inside recv() that has no job yet.
C25_NoLockWhileRunning ==
    /\ \A w \in Running : w \notin rx_lock /\ wjob[w] # 0
    /\ \A w \in rx_lock : wpc[w] = "recv" /\ wjob[w] = 0

\* Two workers running two different jobs at the same time.
C25_Witness ==
    /\ nWorkers >= 2
    /\ Cardinality(Running) = 2
    /\ wjob[0] # wjob[1]
    /\ rx_lock = {}

\* C26: once Drop has closed the sending side, if no submitted job panics,
\* Drop eventually returns: every worker leaves its loop and is joined.
C26_TeardownTerminates ==
    [](((mainpc = "joining") /\ (panics = {})) => <>(mainpc = "dropped"))

\* Drop returned on a pool of two workers that had one job running and one
\* waiting in the channel when teardown began.
C26_Witness ==
    /\ mainpc = "dropped"
    /\ nWorkers = 2
    /\ panics = {}
    /\ inFlightAtDrop # {}
    /\ queuedAtDrop # {}
    /\ tx = "closed"

\* Worker threads that ended in a panic.
Panicked == {w \in Workers : wpc[w] = "panicked"}

\* C27: a panicking job ends exactly the worker that ran it and ends it for
\* good: the job is run once and never again, the dead worker holds neither
\* the lock nor a job, one worker is gone per panicking job run, and no other
\* worker is stopped by it.
C27_PanicKillsOneWorker ==
    /\ [](/\ \A j \in panics : execCount[j] <= 1 /\ Cardinality(execBy[j]) <= 1
          /\ Cardinality(Panicked) = Cardinality({j \in panics : execCount[j] = 1})
          /\ Panicked = UNION {execBy[j] : j \in panics \cap (1 .. submitted)}
          /\ \A w \in Panicked : w \notin rx_lock /\ wjob[w] = 0)
    /\ [][\A w \in Panicked : w \in DOMAIN wpc' /\ wpc'[w] = "panicked"]_vars

\* Worker 0 died on job 1; worker 1 then took the lock, received job 2 and
\* ran it, and is waiting for the lock again.
C27_Witness ==
    /\ nWorkers = 2
    /\ mainpc = "live"
    /\ 1 \in panics /\ execBy[1] = {0}
    /\ wpc[0] = "panicked"
    /\ 2 \notin panics /\ execBy[2] = {1} /\ execCount[2] = 1
    /\ dequeued = <<1, 2>>
    /\ wpc[1] = "recv"

\* C29: when no job panics, every job that was waiting in the channel when
\* teardown began has been run once by the time Drop returns; a worker leaves
\* its loop only when the channel is closed and empty.
C29_QueuedJobsRun ==
    /\ (mainpc = "dropped" /\ panics = {}) =>
           \A j \in queuedAtDrop : execCount[j] = 1 /\ DequeuePos(j) > 0
    /\ (\E w \in Workers : wpc[w] = "exited") => (tx = "closed" /\ queue = <<>>)
    /\ (mainpc = "joining" /\ panics = {}) =>
           \A j \in queuedAtDrop : Queued(j) + InFlight(j) + execCount[j] = 1

\* Drop returned after two jobs that were still queued when it began were run.
C29_Witness ==
    /\ mainpc = "dropped"
    /\ panics = {}
    /\ Cardinality(queuedAtDrop) >= 2
    /\ \A j \in queuedAtDrop : execCount[j] = 1

\* C30: when a worker ended in a panic Drop does not return normally: the
\* joins go in creation order, the first panicked worker's join panics the
\* dropping thread, and no later worker is joined.
C30_DropPanicsOnPanickedWorker ==
    /\ [](/\ (Panicked # {}) => mainpc # "dropped"
          /\ mainpc = "panicked" =>
                 /\ joinIdx \in Panicked
                 /\ \A w \in Workers : w < joinIdx => wpc[w] = "exited"
          /\ mainpc = "joining" => \A w \in Workers : w < joinIdx => wpc[w] = "exited")
    /\ [][mainpc = "panicked" => (mainpc' = "panicked" /\ joinIdx' = joinIdx)]_vars

\* Worker 0 exited and was joined, worker 1 had panicked: its join panicked
\* Drop; and a pool whose first worker panicked, with worker 1 never joined.
C30_Witness ==
    /\ mainpc = "panicked"
    /\ nWorkers = 2
    /\ joinIdx = 0
    /\ wpc[0] = "panicked"
    /\ wpc[1] # "panicked"

----------------------------------------------------------------------------
(* Properties of web::RouteMap *)

Registered == DOMAIN latest

\* C3: get_action(uri, method) is Ok(handler) when the pair is registered,
\* Err(405) when the uri is registered under some method but not this one,
\* Err(404) when the uri is registered under no method at all, and nothing
\* else; a uri without any registered method never gets 405.
C3_ThreeOutcomes ==
    \A u \in Uris, m \in Methods :
        LET r == get_action(map, u, m)
        IN  /\ <<u, m>> \in Registered => r.ok /\ r.action \in Actions
            /\ (<<u, m>> \notin Registered /\ \E m2 \in Methods : <<u, m2>> \in Registered)
                 => ~r.ok /\ r.code = 405
            /\ (\A m2 \in Methods : <<u, m2>> \notin Registered)
                 => ~r.ok /\ r.code = 404
            /\ r.ok \/ r.code \in {404, 405}
            /\ (~r.ok /\ r.code = 405) => \E m2 \in Methods : <<u, m2>> \in Registered

\* C4: a uri with no registered method resolves to 404, like a uri no insert
\* ever named.
C4_NoMethodIsNotFound ==
    \A u \in Uris :
        (\A m \in Methods : <<u, m>> \notin Registered)
            => \A m \in Methods : get_action(map, u, m) = Err(404)

\* C22: get_action(uri, method) returns the action of the most recent insert
\* that named the pair, for every pair any insert named; an insert changes no
\* pair but its own.
C22_LastWriteWins ==
    \A u \in Uris, m \in Methods :
        <<u, m>> \in Registered =>
            get_action(map, u, m) = Ok(latest[<<u, m>>])

\* (/a, GET) was given h1 and later h2 and resolves to h2, while (/a, POST),
\* inserted once with h1, still resolves to h1.
C22_Witness ==
    /\ <<"/a", "GET">> \in replaced
    /\ <<"/a", "POST">> \in Registered \ replaced
    /\ latest[<<"/a", "GET">>] = "h2"
    /\ latest[<<"/a", "POST">>] = "h1"
    /\ get_action(map, "/a", "GET") = Ok("h2")
    /\ get_action(map, "/a", "POST") = Ok("h1")

\* insert_route called once for each method of the list, in list order.
RECURSIVE InsertEach(_, _, _, _)
InsertEach(rm, uri, methods, closure) ==
    IF methods = <<>> THEN rm
    ELSE InsertEach(insert_route(rm, uri, Head(methods), closure), uri, Tail(methods), closure)

\* C23: a call insert_route_methods(uri, methods, h) leaves the table as one
\* insert_route(uri, m, h) per method would, whatever the order of the
\* methods and however often one is repeated, and leaves the caller's list
\* empty.
C23_MethodsAsRepeatedInsert ==
    [][\A u \in Uris, ms \in MethodLists, h \in Actions :
           InsertRouteMethods(u, ms, h) =>
               /\ map' = InsertEach(map, u, ms, h)
               /\ \A ms2 \in MethodLists :
                      SeqToSet(ms2) = SeqToSet(ms) => InsertEach(map, u, ms2, h) = map'
               /\ callerMethods' = <<>>]_vars

----------------------------------------------------------------------------
(* Properties of web::request::RequestBackend::build *)

\* "METHOD URI HTTP/1.1"
WellFormedStatus(l) ==
    /\ ValidUtf8(l)
    /\ Len(SplitWhitespace(l)) = 3
    /\ SplitWhitespace(l)[3] = HTTP11

\* A status line StatusRequest::build accepts.
ValidStatus(l) ==
    /\ ValidUtf8(l)
    /\ Len(SplitWhitespace(l)) >= 3
    /\ SplitWhitespace(l)[3] = HTTP11

\* "Name: value": a non-empty name without whitespace, a colon, any text.
WellFormedHeader(l) ==
    /\ ValidUtf8(l)
    /\ IndexOf(l, ":") > 1
    /\ \A k \in 1 .. (IndexOf(l, ":") - 1) : ~IsWhitespace(l[k])

\* The text before the first colon.
FieldName(l) == SubSeq(l, 1, IndexOf(l, ":") - 1)

\* The text after the first colon, trimmed.
FieldValue(l) == Trim(SubSeq(l, IndexOf(l, ":") + 1, Len(l)))

\* The stream has a status line build accepts and then ends, possibly after
\* further lines, with no exactly-empty line (no header choice is empty, no
\* body choice holds an empty line).
EndsBeforeBlank ==
    /\ src.shape \in {"cut", "full"}
    /\ ValidStatus(src.status)
    /\ ~src.blank

\* C5: on a stream made of a well-formed status line, well-formed header
\* lines, an empty line and any remaining bytes, with no read failing, build
\* succeeds with method and uri the first two tokens, version HTTP/1.1, one
\* header per header line in input order (name the text before the first
\* colon, value the trimmed text after it, duplicates kept), and the body the
\* bytes after the blank line.
C5_BuildWellFormed ==
    ( /\ bpc = "done"
      /\ src.shape = "full"
      /\ src.blank
      /\ WellFormedStatus(src.status)
      /\ \A i \in 1 .. Len(src.headers) : WellFormedHeader(src.headers[i])
      /\ readFailed = "none" )
    => /\ result = WebOk
       /\ status_line.method = SplitWhitespace(src.status)[1]
       /\ status_line.uri = SplitWhitespace(src.status)[2]
       /\ status_line.version = "Http1_1"
       /\ Len(headers) = Len(src.headers)
       /\ \A i \in 1 .. Len(src.headers) :
              headers[i] = [name |-> FieldName(src.headers[i]),
                            value |-> FieldValue(src.headers[i])]
       /\ body = src.body

\* C6: when the stream takes writes, no read returns an error (the lines are
\* text), the status line is valid and the input ends before an exactly-empty
\* line, build fails with 400.
C6_Unterminated400 ==
    (bpc = "done" /\ EndsBeforeBlank /\ readFailed = "none" /\ ~writeFailed)
        => result = WebErr(400)

\* A valid status line, zero headers and no blank line: the header loop meets
\* the end of input, the canned 400 is written, build returns 400.
C6_Witness ==
    /\ bpc = "done"
    /\ src.shape = "full"
    /\ ValidStatus(src.status)
    /\ src.headers = <<>> /\ ~src.blank /\ src.body = <<>>
    /\ readFailed = "none" /\ ~writeFailed
    /\ attempts = <<400>>
    /\ result = WebErr(400)

\* C7 as stated: a read failure at any stage gives 500, and 500 is returned
\* only when a read failed.
C7_ReadFailureIff500 ==
    bpc = "done" =>
        /\ readFailed # "none" => result = WebErr(500)
        /\ result = WebErr(500) => readFailed # "none"

\* C7 amended: a read that returns an error (a transport failure or a line
\* that is not UTF-8) at any of the three stages gives 500, never 400; 500 is
\* returned only then or when the write of the canned 400 response failed.
C7_ReadFailure500 ==
    bpc = "done" =>
        /\ readFailed # "none" => result = WebErr(500)
        /\ result = WebErr(500) =>
               \/ readFailed # "none"
               \/ (writeFailed /\ attempts = <<400>>)

\* The transport fails while the body of an otherwise good request is read.
C7_Witness ==
    /\ bpc = "done"
    /\ ValidUtf8(stream)
    /\ src.shape = "full" /\ src.blank /\ Len(src.headers) >= 1
    /\ readFailed = "body"
    /\ attempts = <<500>>
    /\ result = WebErr(500)

\* C8 as stated: at end of input (no line at all, or no blank line) build
\* returns 400 whether or not the write of the canned 400 succeeds.
C8_WriteFailureSwallowed ==
    (bpc = "done" /\ readFailed = "none" /\ (src.shape = "empty" \/ EndsBeforeBlank))
        => result = WebErr(400)

\* C8 amended: there build returns 400 when no write of the canned 400
\* response failed and 500 when one failed.
C8_WriteFailureEscalated ==
    (bpc = "done" /\ readFailed = "none" /\ (src.shape = "empty" \/ EndsBeforeBlank))
        => result = (IF writeFailed THEN WebErr(500) ELSE WebErr(400))

\* An empty stream that refuses the canned 400: build returns 500.
C8_Witness ==
    /\ bpc = "done"
    /\ src.shape = "empty"
    /\ attempts = <<400>>
    /\ writeFailed
    /\ result = WebErr(500)

\* C9: whenever build has failed, it has tried to write the canned response
\* carrying the code it returns.
C9_CannedResponseAttempted ==
    (bpc = "done" /\ ~result.ok) => attempts = <<result.code>>

----------------------------------------------------------------------------
(* Properties of web::response::Header *)

\* C10: for a line with at least one colon, the value is the whole text after
\* the first colon, trimmed, further colons included.
C10_ValueAfterFirstColon ==
    (hpc = "built" /\ IndexOf(hline, ":") > 0)
        => /\ hres.ok
           /\ hres.value = Trim(SubSeq(hline, IndexOf(hline, ":") + 1, Len(hline)))

\* C11 as stated: the name is the text before the first colon, verbatim.
C11_NameVerbatim ==
    (hpc # "input" /\ IndexOf(hline, ":") > 0)
        => hres.name = SubSeq(hline, 1, IndexOf(hline, ":") - 1)

\* C11 amended: the name is the text before the first colon with its leading
\* and trailing whitespace trimmed.
C11_NameTrimmed ==
    (hpc # "input" /\ IndexOf(hline, ":") > 0)
        => /\ hres.ok
           /\ hres.name = Trim(SubSeq(hline, 1, IndexOf(hline, ":") - 1))

\* A line whose left side has whitespace on both ends: the name loses it.
C11_Witness ==
    /\ hpc = "built"
    /\ IndexOf(hline, ":") = 4
    /\ hline[1] = " " /\ hline[2] = "H" /\ hline[3] = " "
    /\ hres.name = <<"H">>

\* C13: for a line Header::build accepts, to_http_str is name, colon, exactly
\* one space, value, and building that string again gives the same name and
\* value.
C13_SerializeStable ==
    (hpc = "rebuilt") =>
        /\ hstr = hres.name \o <<":", " ">> \o hres.value
        /\ hstr[Len(hres.name) + 1] = ":"
        /\ hstr[Len(hres.name) + 2] = " "
        /\ Len(hstr) > Len(hres.name) + 2 => ~IsWhitespace(hstr[Len(hres.name) + 3])
        /\ hres2.ok
        /\ hres2.name = hres.name
        /\ hres2.value = hres.value
        /\ to_http_str(hres2) = hstr

\* A line with no space after the colon and spaces around the value comes
\* back in canonical form and rebuilds to the same header.
C13_Witness ==
    /\ hpc = "rebuilt"
    /\ hline = <<"H", ":", "v", " ">>
    /\ hstr = <<"H", ":", " ", "v">>
    /\ hres2.name = <<"H">> /\ hres2.value = <<"v">>

\* The stream's first header line without a colon, 0 if every line has one.
FirstColonless(hs) ==
    IF \E k \in 1 .. Len(hs) : IndexOf(hs[k], ":") = 0
      THEN CHOOSE k \in 1 .. Len(hs) :
               /\ IndexOf(hs[k], ":") = 0
               /\ \A i \in 1 .. (k - 1) : IndexOf(hs[i], ":") > 0
      ELSE 0

\* C12: a header line with no colon makes Header::build fail with 400, and
\* when build meets such a line (valid status line, every read succeeding) it
\* fails with that same 400: nothing is written to the stream and the headers
\* parsed so far are those of the lines before it.
C12_ColonlessHeader400 ==
    ( /\ bpc = "done"
      /\ src.shape = "full"
      /\ ValidStatus(src.status)
      /\ FirstColonless(src.headers) > 0
      /\ readFailed = "none" )
    => /\ ~HeaderBuild(src.headers[FirstColonless(src.headers)]).ok
       /\ HeaderBuild(src.headers[FirstColonless(src.headers)]).code = 400
       /\ result = WebErr(HeaderBuild(src.headers[FirstColonless(src.headers)]).code)
       /\ result = WebErr(400)
       /\ attempts = <<>>
       /\ wire = <<>>
       /\ Len(headers) = FirstColonless(src.headers) - 1

\* A good header line, then a line with no colon, then the blank line: build
\* returns 400 after parsing one header.
C12_Witness ==
    /\ bpc = "done"
    /\ src.shape = "full"
    /\ ValidStatus(src.status)
    /\ src.headers = << <<"H", ":", " ", "v">>, <<"H", "v">> >>
    /\ src.blank
    /\ readFailed = "none"
    /\ Len(headers) = 1
    /\ result = WebErr(400)

\* The status line is text that StatusRequest::build is given and it has
\* fewer than three tokens or a third token other than HTTP/1.1.
InvalidStatusRead ==
    /\ bpc = "done"
    /\ src.shape \in {"cut", "full"}
    /\ ValidUtf8(src.status)
    /\ \/ Len(SplitWhitespace(src.status)) < 3
       \/ SplitWhitespace(src.status)[3] # HTTP11
    /\ readFailed = "none"

\* C14: a status line with fewer than three whitespace-separated tokens, or
\* with a third token other than HTTP/1.1, makes StatusRequest::build fail
\* with 400, and build returns that 400 unchanged without reading further or
\* writing anything.
C14_BadStatus400 ==
    InvalidStatusRead
    => /\ ~StatusRequestBuild(src.status).ok
       /\ StatusRequestBuild(src.status).code = 400
       /\ result = WebErr(StatusRequestBuild(src.status).code)
       /\ result = WebErr(400)
       /\ attempts = <<>>
       /\ wire = <<>>
       /\ status_line = NoStatus
       /\ headers = <<>>

\* Three tokens with HTTP/1.0 as the third, followed by good headers and a
\* blank line: build returns 400.
C14_Witness ==
    /\ InvalidStatusRead
    /\ Len(SplitWhitespace(src.status)) = 3
    /\ src.shape = "full"
    /\ src.blank
    /\ Len(src.headers) = 1
    /\ result = WebErr(400)

\* The line was put together from at least three tokens, the third HTTP/1.1.
AcceptableTokens == Len(stoks) >= 3 /\ stoks[3] = HTTP11

\* The unified "METHOD URI" text of the tokens the line was put together from.
Unified == stoks[1] \o <<" ">> \o stoks[2]

\* The texts a StatusRequest hands out: its String-valued accessors.
ReturnedTexts == {sgot.method, sgot.uri}

\* C15: a status line of at least three whitespace-separated tokens whose
\* third token is HTTP/1.1 is accepted whatever follows the third token, with
\* method the first token, uri the second and version Http1_1, and the
\* StatusRequest returns the unified "METHOD URI" text of the two, which
\* followed by the version parses to the same method and uri.
C15_StatusRoundTrip ==
    (spc # "input" /\ AcceptableTokens)
    => /\ sres.ok
       /\ sres.method = stoks[1]
       /\ sres.uri = stoks[2]
       /\ sres.version = "Http1_1"
       /\ spc = "read" =>
              /\ sgot.version = "Http1_1"
              /\ Unified \in ReturnedTexts
              /\ \E t \in ReturnedTexts :
                     /\ StatusRequestBuild(t \o <<" ">> \o HTTP11).method = sres.method
                     /\ StatusRequestBuild(t \o <<" ">> \o HTTP11).uri = sres.uri

\* The header block as it goes on the wire: "name: value" CRLF per header.
RECURSIVE HeaderBlock(_)
HeaderBlock(hdrs) ==
    IF hdrs = <<>> THEN <<>>
    ELSE Head(hdrs).name \o <<":", " ">> \o Head(hdrs).value \o CRLF
             \o HeaderBlock(Tail(hdrs))

\* The whole response as it goes on the wire.
Serialization(r) ==
    HTTP11 \o <<" ">> \o UsizeToString(r.code.code) \o <<" ">> \o r.code.reason \o CRLF
        \o HeaderBlock(r.headers) \o CRLF \o r.body

\* s is the first n elements of t
IsPrefix(s_, t_) == Len(s_) <= Len(t_) /\ s_ = SubSeq(t_, 1, Len(s_))

\* The stream takes every byte respond writes.
AllWritesSucceed == ~rfault.fails \/ rfault.after >= Len(Serialization(rsp))

\* C16: when every write succeeds respond returns Ok and the stream holds
\* exactly the status line, CRLF, "name: value" CRLF for each header in order,
\* one CRLF, and the body bytes with nothing after them; the writes are the
\* status line, its CRLF, two per header, the blank line and the body.
C16_ExactSerialization ==
    (rpc = "responded" /\ AllWritesSucceed)
    => /\ rout.ok
       /\ rout.wire = Serialization(rsp)
       /\ rout.calls = 4 + 2 * Len(rsp.headers)

\* A 200 with two headers and a body that ends in CRLF, every write succeeding.
C16_Witness ==
    /\ rpc = "responded"
    /\ ~rfault.fails
    /\ rsp.code = get_200
    /\ Len(rsp.headers) = 2
    /\ rsp.body = <<"b", "\r", "\n">>
    /\ rout.ok
    /\ Len(rout.wire) = Len(Serialization(rsp))

\* The buffers respond writes, spelled out: status, CRLF, (header, CRLF)*,
\* CRLF, body.
WriteSizes(r) ==
    <<Len(HTTP11) + 1 + Len(UsizeToString(r.code.code)) + 1 + Len(r.code.reason), 2>>
        \o Concat([i \in 1 .. Len(r.headers) |->
                      <<Len(r.headers[i].name) + 2 + Len(r.headers[i].value), 2>>])
        \o <<2, Len(r.body)>>

RECURSIVE SumTo(_, _)
SumTo(sizes, k) == IF k = 0 THEN 0 ELSE sizes[k] + SumTo(sizes, k - 1)

\* The write that fails: the first one that would take the stream past the
\* bytes it accepts.
FirstFailingWrite(r, after) ==
    CHOOSE k \in 1 .. Len(WriteSizes(r)) :
        /\ SumTo(WriteSizes(r), k) > after
        /\ SumTo(WriteSizes(r), k - 1) <= after

\* C17: when one of respond's writes fails, respond returns the error, the
\* failing write is the last one made (each earlier write made once, none
\* after it), and the stream holds a proper prefix of the full serialization:
\* exactly the bytes it accepted.
C17_StopAtFirstFailure ==
    (rpc = "responded" /\ ~AllWritesSucceed)
    => /\ ~rout.ok
       /\ rout.calls = FirstFailingWrite(rsp, rfault.after)
       /\ IsPrefix(rout.wire, Serialization(rsp))
       /\ Len(rout.wire) = rfault.after
       /\ Len(rout.wire) < Len(Serialization(rsp))

\* The stream stops in the middle of the first header: three writes made
\* (status, CRLF, header), the status line and part of the header on the wire.
C17_Witness ==
    /\ rpc = "responded"
    /\ rfault.fails
    /\ Len(rsp.headers) = 2
    /\ rsp.code = get_200
    /\ rfault.after = 19
    /\ rout.calls = 3
    /\ ~rout.ok
    /\ Len(rout.wire) = 19

\* C28: after a successful build on an in-memory stream and one respond whose
\* writes all succeed, the stream read from offset 0 holds the serialization
\* of the response and nothing else.
C28_StreamHoldsOnlyResponse ==
    (bpc = "responded" /\ sent.ok)
        => held = Serialization(sent)

\* C24: two ResponseCodes compare equal exactly when their numbers are equal,
\* whatever their reasons and whether each is canned or made by new; a code
\* made with 200 and any reason equals get_200, and get_200 differs from
\* get_400.
C24_EqualityByCode ==
    /\ cpc = "compared" => (ceq <=> code_1.code = code_2.code)
    /\ \A r \in ReasonChoices :
           eq(ResponseCodeNew(200, r), get_200) /\ eq(get_200, ResponseCodeNew(200, r))
    /\ ~eq(get_200, get_400)

\* get_200() == ResponseCode::new(200, "Nonsense") gave true.
C24_Witness ==
    /\ cpc = "compared"
    /\ code_1 = get_200
    /\ code_2 = ResponseCodeNew(200, <<"N", "o", "n", "s", "e", "n", "s", "e">>)
    /\ code_1 # code_2
    /\ ceq

----------------------------------------------------------------------------
(* Specifications *)

StartPool == InitPool /\ IdleRoute /\ IdleBuild /\ IdleHeader /\ IdleStatus /\ IdleRespond /\ IdleCode

SpecPool == StartPool /\ [][NextPool]_vars

\* Every thread that can take a step eventually takes it: the worker threads
\* are scheduled, a free mutex is granted, a job's callable returns, and the
\* dropping thread goes on to the next join.
FairPool ==
    /\ \A w \in 0 .. (MaxWorkers - 1) :
           /\ WF_vars(w \in Workers /\ AcquireLock(w))
           /\ WF_vars(w \in Workers /\ RecvJob(w))
           /\ WF_vars(w \in Workers /\ RecvFail(w))
           /\ WF_vars(w \in Workers /\ RunJob(w))
    /\ WF_vars(DropJoin)

SpecPoolFair == StartPool /\ [][NextPool]_vars /\ FairPool

StartRoute == InitRoute /\ IdlePool /\ IdleBuild /\ IdleHeader /\ IdleStatus /\ IdleRespond /\ IdleCode

SpecRoute == StartRoute /\ [][NextRoute]_vars

StartBuild == InitBuild /\ IdlePool /\ IdleRoute /\ IdleHeader /\ IdleStatus /\ IdleRespond /\ IdleCode

SpecBuild == StartBuild /\ [][NextBuild]_vars

StartHeader == InitHeader /\ IdlePool /\ IdleRoute /\ IdleBuild /\ IdleStatus /\ IdleRespond /\ IdleCode

SpecHeader == StartHeader /\ [][NextHeader]_vars

StartStatus ==
    /\ InitStatus /\ IdlePool /\ IdleRoute /\ IdleBuild /\ IdleHeader /\ IdleRespond
    /\ IdleCode

SpecStatus == StartStatus /\ [][NextStatus]_vars

StartRespond ==
    /\ InitRespond /\ IdlePool /\ IdleRoute /\ IdleBuild /\ IdleHeader /\ IdleStatus
    /\ IdleCode

SpecRespond == StartRespond /\ [][NextRespond]_vars

StartCode ==
    /\ InitCode /\ IdlePool /\ IdleRoute /\ IdleBuild /\ IdleHeader /\ IdleStatus
    /\ IdleRespond

SpecCode == StartCode /\ [][NextCode]_vars

====
